---- MODULE Spec2Model ----
(* Nested-set interval maintenance of nested_sets/__init__.py: the table  *)
(* of rows (id, lft, rgt), the before_insert / after_delete hooks and the *)
(* three subtree moves. Each operation runs as a whole inside a session   *)
(* transaction and is committed before the next one starts, as the tests  *)
(* do; the commit expires the instances, so every operation reads fresh   *)
(* left/right attributes.                                                 *)
EXTENDS Integers, Sequences, FiniteSets, TLC

MaxNodes == 4     \* rows the table may hold at once
MaxSlots == 4     \* a create is taken only while the largest right bound stays <= 2 * MaxSlots
MaxBuild == 6     \* rows of a forest built by creates alone
MaxRace == 3      \* rows of a forest on which statements of two transactions interleave

Keys == 1..MaxNodes
BuildKeys == 1..MaxBuild
None == 0
Procs == 1..2

VARIABLES store, parent, prev, last, tx

vars == <<store, parent, prev, last, tx>>

----
(* Rows and reads *)

Row(k, l, r) == [id |-> k, lft |-> l, rgt |-> r]

Ids(s) == {r.id : r \in s}

RowOf(s, k) == CHOOSE r \in s : r.id = k

Max(S) == CHOOSE x \in S : \A y \in S : y <= x

Min(S) == CHOOSE x \in S : \A y \in S : x <= y

----
(* Relationship predicates *)

is_ancestor_of(self, other, inclusive) ==
    IF inclusive
    THEN self.lft <= other.lft /\ other.rgt <= self.rgt
    ELSE self.lft < other.lft /\ other.rgt < self.rgt

is_descendant_of(self, other, inclusive) == is_ancestor_of(other, self, inclusive)

----
(* Bulk updates *)

(* the quarantine negating the lft column only *)
move_outside_negate_lft(s, self) ==
    { IF r.lft >= self.lft /\ r.rgt <= self.rgt
      THEN [r EXCEPT !.lft = -r.lft]
      ELSE r : r \in s }

(* the quarantine filtering on lft alone *)
move_outside_lft_only(s, self) ==
    { IF r.lft >= self.lft
      THEN [r EXCEPT !.lft = -r.lft, !.rgt = -r.rgt]
      ELSE r : r \in s }

move_outside(s, self) ==
    { IF r.lft >= self.lft /\ r.rgt <= self.rgt
      THEN [r EXCEPT !.lft = -r.lft, !.rgt = -r.rgt]
      ELSE r : r \in s }

(* the gap closure without the CASE on lft: only right bounds are shifted *)
shrink_space_rgt_only(s, self) ==
    LET width == self.rgt - self.lft + 1
    IN  { IF r.rgt > self.rgt
          THEN [r EXCEPT !.rgt = r.rgt - width]
          ELSE r : r \in s }

shrink_space(s, self) ==
    LET width == self.rgt - self.lft + 1
    IN  { IF r.rgt > self.rgt
          THEN [r EXCEPT !.lft = IF r.lft > self.rgt THEN r.lft - width ELSE r.lft,
                         !.rgt = r.rgt - width]
          ELSE r : r \in s }

(* increase_space without the CASE on lft: only right bounds are shifted *)
increase_space_rgt_only(s, position, space, inclusive) ==
    { IF (IF inclusive THEN r.rgt >= position ELSE r.rgt > position)
      THEN [r EXCEPT !.rgt = r.rgt + space]
      ELSE r : r \in s }

increase_space(s, position, space, inclusive) ==
    { IF (IF inclusive THEN r.rgt >= position ELSE r.rgt > position)
      THEN [r EXCEPT !.lft = IF r.lft >= position THEN r.lft + space ELSE r.lft,
                     !.rgt = r.rgt + space]
      ELSE r : r \in s }

(* the re-anchoring with the sign of distance reversed *)
return_inside_plus(s, distance) ==
    { IF r.lft < 0
      THEN [r EXCEPT !.lft = -r.lft + distance, !.rgt = -r.rgt + distance]
      ELSE r : r \in s }

return_inside(s, distance) ==
    { IF r.lft < 0
      THEN [r EXCEPT !.lft = -r.lft - distance, !.rgt = -r.rgt - distance]
      ELSE r : r \in s }

----
(* Moves *)

(* move_node_before with move_node_after's distance *)
move_node_before_off(s, instance, target) ==
    LET width == instance.rgt - instance.lft + 1
        target_left == RowOf(s, target).lft
        distance == instance.lft - target_left - 1
    IN  return_inside(increase_space(s, target_left, width, TRUE), distance)

move_node_before(s, instance, target) ==
    LET width == instance.rgt - instance.lft + 1
        target_left == RowOf(s, target).lft
        distance == instance.lft - target_left
    IN  return_inside(increase_space(s, target_left, width, TRUE), distance)

(* move_node_after opening the gap with the default inclusive=True *)
move_node_after_inclusive(s, instance, target) ==
    LET width == instance.rgt - instance.lft + 1
        target_right == RowOf(s, target).rgt
        distance == instance.lft - target_right - 1
    IN  return_inside(increase_space(s, target_right, width, TRUE), distance)

move_node_after(s, instance, target) ==
    LET width == instance.rgt - instance.lft + 1
        target_right == RowOf(s, target).rgt
        distance == instance.lft - target_right - 1
    IN  return_inside(increase_space(s, target_right, width, FALSE), distance)

(* move_node_inside opening the gap past the target's right bound *)
move_node_inside_exclusive(s, instance, target) ==
    LET width == instance.rgt - instance.lft + 1
        target_right == RowOf(s, target).rgt
        distance == instance.lft - target_right
    IN  return_inside(increase_space(s, target_right, width, FALSE), distance)

move_node_inside(s, instance, target) ==
    LET width == instance.rgt - instance.lft + 1
        target_right == RowOf(s, target).rgt
        distance == instance.lft - target_right
    IN  return_inside(increase_space(s, target_right, width, TRUE), distance)

(* the cycle check with strict comparisons: a node may be moved onto itself *)
MovementNotAllowed_strict(self, target) ==
    self.lft < target.lft /\ self.rgt > target.rgt

MovementNotAllowed(self, target) ==
    self.lft <= target.lft /\ self.rgt >= target.rgt

move_before(s, self, target) ==
    move_node_before(shrink_space(move_outside(s, self), self), self, target.id)

move_after(s, self, target) ==
    move_node_after(shrink_space(move_outside(s, self), self), self, target.id)

move_inside(s, self, target) ==
    move_node_inside(shrink_space(move_outside(s, self), self), self, target.id)

----
(* Tree reconstruction *)

RECURSIVE SortByLeft(_)
SortByLeft(S) ==
    IF S = {} THEN <<>>
    ELSE LET m == CHOOSE r \in S : \A q \in S : r.lft <= q.lft
         IN  <<m>> \o SortByLeft(S \ {m})

RECURSIVE SortById(_)
SortById(S) ==
    IF S = {} THEN <<>>
    ELSE LET m == CHOOSE r \in S : \A q \in S : r.id <= q.id
         IN  <<m>> \o SortById(S \ {m})

(* the descendants relationship without order_by: rows come in key order *)
descendants_unordered(s, self) ==
    SortById({r \in s : r.lft > self.lft /\ r.lft < self.rgt})

(* the descendants relationship with >= on the lower bound: self included *)
descendants_inclusive(s, self) ==
    SortByLeft({r \in s : r.lft >= self.lft /\ r.lft < self.rgt})

descendants(s, self) ==
    SortByLeft({r \in s : r.lft > self.lft /\ r.lft < self.rgt})

ancestors(s, self) ==
    SortByLeft({r \in s : r.lft < self.lft /\ r.rgt > self.rgt})

(* the pop loop of generate_tree: the stack with the node's parent on top, *)
(* or the empty stack when the pops run past the bottom (IndexError)       *)
(* generate_tree without the pop loop: the top of the stack is the parent *)
PopToParent_top(stack, node) == stack

RECURSIVE PopToParent(_, _)
PopToParent(stack, node) ==
    IF stack = <<>> THEN <<>>
    ELSE IF node.lft > stack[Len(stack)].rgt
         THEN PopToParent(SubSeq(stack, 1, Len(stack) - 1), node)
         ELSE stack

RECURSIVE GenerateFrom(_, _, _, _)
GenerateFrom(nodes, i, stack, ch) ==
    IF i > Len(nodes) THEN [children |-> ch, err |-> FALSE]
    ELSE LET node == nodes[i]
             st == PopToParent(stack, node)
         IN  IF st = <<>> THEN [children |-> ch, err |-> TRUE]
             ELSE LET par == st[Len(st)].id
                      ch1 == [x \in DOMAIN ch \cup {node.id} |->
                                 IF x = node.id THEN <<>>
                                 ELSE IF x = par THEN Append(ch[x], node.id)
                                 ELSE ch[x]]
                  IN  GenerateFrom(nodes, i + 1, Append(st, node), ch1)

generate_tree(s, self) ==
    GenerateFrom(descendants(s, self), 1, <<self>>, [x \in {self.id} |-> <<>>])

----
(* Indented listing: the self-join on ealias.left BETWEEN model.left AND  *)
(* model.right, grouped by the ealias row and ordered by ealias.left      *)

(* the listing with count(...) in place of count(...) - 1 *)
print_tree_count(s) ==
    LET joined(e) == {m \in s : m.lft <= e.lft /\ e.lft <= m.rgt}
        rows == SortByLeft({e \in s : joined(e) # {}})
    IN  [i \in 1..Len(rows) |->
            [indentation |-> Cardinality(joined(rows[i])), employee |-> rows[i]]]

print_tree(s) ==
    LET joined(e) == {m \in s : m.lft <= e.lft /\ e.lft <= m.rgt}
        rows == SortByLeft({e \in s : joined(e) # {}})
    IN  [i \in 1..Len(rows) |->
            [indentation |-> Cardinality(joined(rows[i])) - 1, employee |-> rows[i]]]

----
(* Insert and delete hooks *)

(* the scalar read ordered ascending: the smallest right bound *)
right_most_asc(s) == IF s = {} THEN 0 ELSE Min({r.rgt : r \in s})

right_most(s) == IF s = {} THEN 0 ELSE Max({r.rgt : r \in s})

(* before_insert opening the gap past the parent's right bound *)
before_insert_exclusive(s, k, p) ==
    IF p = None
    THEN s \cup {Row(k, right_most(s) + 1, right_most(s) + 2)}
    ELSE LET right_most_sibling == RowOf(s, p).rgt
         IN  increase_space(s, right_most_sibling, 2, FALSE)
                 \cup {Row(k, right_most_sibling, right_most_sibling + 1)}

before_insert(s, k, p) ==
    IF p = None
    THEN s \cup {Row(k, right_most(s) + 1, right_most(s) + 2)}
    ELSE LET right_most_sibling == RowOf(s, p).rgt
         IN  increase_space(s, right_most_sibling, 2, TRUE)
                 \cup {Row(k, right_most_sibling, right_most_sibling + 1)}

(* after_delete without the range delete: only the gap is closed *)
after_delete_shrink_only(s, instance) == shrink_space(s, instance)

after_delete(s, instance) ==
    LET shrunk == shrink_space(s, instance)
    IN  {r \in shrunk : ~(r.lft > instance.lft /\ r.rgt < instance.rgt)}

----
(* Operations *)

Op(o, n, t, e) == [op |-> o, node |-> n, target |-> t, err |-> e]

(* a transaction that runs statement by statement: its position, the    *)
(* operation, the instance as loaded, the target or parent key, the     *)
(* scalar it read and whether it began while another one was in flight  *)
NoTx ==
    [pc |-> "none", op |-> "none", self |-> Row(None, 0, 0), target |-> None,
     pos |-> 0, overlap |-> FALSE]

Init ==
    /\ store = {}
    /\ parent = [k \in {} |-> None]
    /\ prev = {}
    /\ last = Op("commit", None, None, FALSE)
    /\ tx = [p \in Procs |-> NoTx]

(* no transaction is open: the last operation has been committed *)
Idle == last.op = "commit"

NewKey(s) == Min((1..(Cardinality(s) + 1)) \ Ids(s))

(* session.add(Model(parent=p)); commit: the row is inserted under a fresh key *)
Insert(p) ==
    /\ p = None \/ p \in Ids(store)
    /\ store' = before_insert(store, NewKey(store), p)
    /\ prev' = store
    /\ last' = Op("create", NewKey(store), p, FALSE)
    /\ UNCHANGED tx

Create(p) ==
    /\ Idle
    /\ Cardinality(store) < MaxNodes
    /\ Insert(p)
    /\ right_most(store') <= 2 * MaxSlots
    /\ UNCHANGED parent

(* session.delete(n); commit: the row goes, then after_delete runs *)
Delete(n) ==
    /\ Idle
    /\ n \in Ids(store)
    /\ LET instance == RowOf(store, n)
       IN  store' = after_delete(store \ {instance}, instance)
    /\ prev' = store
    /\ last' = Op("delete", n, None, FALSE)
    /\ UNCHANGED <<parent, tx>>

Move(o, n, t) ==
    /\ Idle
    /\ n \in Ids(store)
    /\ t \in Ids(store)
    /\ LET self == RowOf(store, n)
           target == RowOf(store, t)
       IN  IF MovementNotAllowed(self, target)
           THEN /\ store' = store
                /\ last' = Op(o, n, t, TRUE)
           ELSE /\ store' = CASE o = "move_before" -> move_before(store, self, target)
                              [] o = "move_after" -> move_after(store, self, target)
                              [] o = "move_inside" -> move_inside(store, self, target)
                /\ last' = Op(o, n, t, FALSE)
    /\ prev' = store
    /\ UNCHANGED <<parent, tx>>

MoveBefore(n, t) == Move("move_before", n, t)

MoveAfter(n, t) == Move("move_after", n, t)

MoveInside(n, t) == Move("move_inside", n, t)

(* session.commit(): the transaction ends and prev, the table as of the  *)
(* last commit, catches up with the table                                *)
Commit ==
    /\ ~Idle
    /\ prev' = store
    /\ last' = Op("commit", None, None, FALSE)
    /\ UNCHANGED <<store, parent, tx>>

Next ==
    \/ \E p \in Keys \cup {None} : Create(p)
    \/ \E n \in Keys : Delete(n)
    \/ \E n, t \in Keys : MoveBefore(n, t)
    \/ \E n, t \in Keys : MoveAfter(n, t)
    \/ \E n, t \in Keys : MoveInside(n, t)
    \/ Commit

Spec == Init /\ [][Next]_vars

(* A forest built by creates alone, in one session (before_insert reads  *)
(* the table, not the instances); parent keeps each instance's parent    *)
(* attribute                                                             *)
Build(p) ==
    /\ Cardinality(store) < MaxBuild
    /\ Insert(p)
    /\ parent' = [x \in Ids(store) \cup {NewKey(store)} |->
                      IF x = NewKey(store) THEN p ELSE parent[x]]

NextBuild == \E p \in BuildKeys \cup {None} : Build(p)

SpecBuild == Init /\ [][NextBuild]_vars

----
(* Vocabulary of the properties *)

Moves == {"move_before", "move_after", "move_inside"}

Moved == last.op \in Moves /\ ~last.err

Width(r) == r.rgt - r.lft + 1

StrictDescendants(s, a) == {b \in s : a.lft < b.lft /\ b.rgt < a.rgt}

Subtree(s, a) == {b \in s : a.lft <= b.lft /\ b.rgt <= a.rgt}

(* id of the nearest strict ancestor of row r in table s, None for a root *)
ParentOf(s, r) ==
    LET anc == {a \in s : a.lft < r.lft /\ r.rgt < a.rgt}
    IN  IF anc = {} THEN None
        ELSE (CHOOSE a \in anc : \A b \in anc : b.lft <= a.lft).id

Relations(a, b) ==
    {i \in 1..4 : \/ i = 1 /\ a.rgt < b.lft
                  \/ i = 2 /\ b.rgt < a.lft
                  \/ i = 3 /\ a.lft < b.lft /\ b.rgt < a.rgt
                  \/ i = 4 /\ b.lft < a.lft /\ a.rgt < b.rgt}

----
(* C1: after any sequence of completed create, delete and move operations *)
(* every two distinct rows stand in exactly one of the four relations:    *)
(* a left of b, b left of a, a strictly contains b, b strictly contains a *)
C1_NestingLaw ==
    \A a, b \in store : a # b => Cardinality(Relations(a, b)) = 1

C1_Witness ==
    /\ Moved
    /\ \E a, b, c \in store : a.rgt < b.lft /\ b.lft < c.lft /\ c.rgt < b.rgt

(* C2: every row has rgt - lft + 1 = 2 * (1 + number of rows strictly     *)
(* inside its interval), after any sequence of completed operations       *)
C2_WidthLaw ==
    \A a \in store : Width(a) = 2 * (1 + Cardinality(StrictDescendants(store, a)))

(* C3: a move of N before, after or inside a target T lying in N's        *)
(* inclusive interval raises the movement error and leaves every row's    *)
(* bounds as they were                                                    *)
C3_CycleRejection ==
    (last.op \in Moves /\ is_ancestor_of(RowOf(prev, last.node), RowOf(prev, last.target), TRUE))
        => (last.err /\ store = prev)

C3_Witness ==
    /\ last.op \in Moves
    /\ last.err
    /\ last.node # last.target
    /\ store = prev

(* C4: a legal move_before(N, T) ends with N.rgt + 1 = T.lft, N's width   *)
(* unchanged and N and T under the same nearest strict ancestor           *)
C4_MoveBefore ==
    (last.op = "move_before" /\ ~last.err) =>
        LET N == RowOf(store, last.node)
            T == RowOf(store, last.target)
        IN  /\ N.rgt + 1 = T.lft
            /\ Width(N) = Width(RowOf(prev, last.node))
            /\ ParentOf(store, N) = ParentOf(store, T)

(* N came from inside T's subtree, with a descendant of its own *)
C4_Witness ==
    /\ last.op = "move_before" /\ ~last.err
    /\ is_ancestor_of(RowOf(prev, last.target), RowOf(prev, last.node), FALSE)
    /\ Width(RowOf(prev, last.node)) > 2
    /\ RowOf(store, last.node).rgt + 1 = RowOf(store, last.target).lft

(* C5: a legal move_after(N, T) ends with T.rgt + 1 = N.lft, N's width    *)
(* unchanged and N and T under the same nearest strict ancestor           *)
C5_MoveAfter ==
    (last.op = "move_after" /\ ~last.err) =>
        LET N == RowOf(store, last.node)
            T == RowOf(store, last.target)
        IN  /\ T.rgt + 1 = N.lft
            /\ Width(N) = Width(RowOf(prev, last.node))
            /\ ParentOf(store, N) = ParentOf(store, T)

(* N came from the left of T and T has a parent *)
C5_Witness ==
    /\ last.op = "move_after" /\ ~last.err
    /\ RowOf(prev, last.node).rgt < RowOf(prev, last.target).lft
    /\ ParentOf(store, RowOf(store, last.target)) # None
    /\ RowOf(store, last.target).rgt + 1 = RowOf(store, last.node).lft

(* C6: a legal move_inside(N, T) ends with T.rgt = N.rgt + 1 and T the   *)
(* nearest strict ancestor of N; when T had no descendants before the     *)
(* move, also T.lft = N.lft - 1                                           *)
C6_MoveInside ==
    (last.op = "move_inside" /\ ~last.err) =>
        LET N == RowOf(store, last.node)
            T == RowOf(store, last.target)
        IN  /\ T.rgt = N.rgt + 1
            /\ ParentOf(store, N) = T.id
            /\ StrictDescendants(prev, RowOf(prev, last.target)) = {}
                   => T.lft = N.lft - 1

(* C7: a legal move of N keeps the set of keys, translates N's subtree    *)
(* rigidly, and keeps the parent and the mutual left-to-right order of    *)
(* the rows outside N's subtree                                           *)
C7_MoveFrame ==
    Moved =>
        LET Np == RowOf(prev, last.node)
            N == RowOf(store, last.node)
            sub == Subtree(prev, Np)
            out == prev \ sub
        IN  /\ Ids(store) = Ids(prev)
            /\ \A d \in sub :
                   /\ RowOf(store, d.id).lft - N.lft = d.lft - Np.lft
                   /\ RowOf(store, d.id).rgt - N.lft = d.rgt - Np.lft
            /\ \A x \in out :
                   ParentOf(store, RowOf(store, x.id)) = ParentOf(prev, x)
            /\ \A x, y \in out :
                   (x.lft < y.lft) <=> (RowOf(store, x.id).lft < RowOf(store, y.id).lft)

(* N has a descendant, a row outside has a parent, and N changed place *)
C7_Witness ==
    /\ Moved
    /\ Width(RowOf(prev, last.node)) > 2
    /\ RowOf(store, last.node).lft # RowOf(prev, last.node).lft
    /\ \E x \in prev \ Subtree(prev, RowOf(prev, last.node)) :
           /\ ParentOf(prev, x) # None
           /\ RowOf(store, x.id) # x

(* C8: create under a parent P whose right bound is R gives the new row   *)
(* (R, R + 1), adds 2 to every right bound >= R and every left bound >= R *)
(* and to nothing else; the new row is a leaf, its nearest strict         *)
(* ancestor is P and it lies to the right of P's other children           *)
C8_CreateWithParent ==
    (last.op = "create" /\ last.target # None) =>
        LET R == RowOf(prev, last.target).rgt
            new == RowOf(store, last.node)
        IN  /\ new.lft = R /\ new.rgt = R + 1
            /\ Ids(store) = Ids(prev) \cup {last.node}
            /\ last.node \notin Ids(prev)
            /\ \A x \in prev :
                   /\ RowOf(store, x.id).rgt = IF x.rgt >= R THEN x.rgt + 2 ELSE x.rgt
                   /\ RowOf(store, x.id).lft = IF x.lft >= R THEN x.lft + 2 ELSE x.lft
            /\ StrictDescendants(store, new) = {}
            /\ ParentOf(store, new) = last.target
            /\ \A c \in store \ {new} :
                   ParentOf(store, c) = last.target => c.lft < new.lft

(* P already had a child, and rows to the right of P were shifted *)
C8_Witness ==
    /\ last.op = "create" /\ last.target # None
    /\ StrictDescendants(prev, RowOf(prev, last.target)) # {}
    /\ \E x \in prev : x.lft > RowOf(prev, last.target).rgt
                          /\ RowOf(store, x.id).lft = x.lft + 2
    /\ ParentOf(store, RowOf(store, last.node)) = last.target

(* C9: create without a parent gives the new row (M + 1, M + 2), M the    *)
(* largest right bound in the table (0 when it is empty), and changes no  *)
(* existing row                                                           *)
C9_CreateRoot ==
    (last.op = "create" /\ last.target = None) =>
        LET M == IF prev = {} THEN 0
                 ELSE CHOOSE m \in {r.rgt : r \in prev} : \A r \in prev : r.rgt <= m
            new == RowOf(store, last.node)
        IN  /\ new.lft = M + 1 /\ new.rgt = M + 2
            /\ store = prev \cup {new}
            /\ last.node \notin Ids(prev)

(* the table already held a tree whose root is not the last row inserted *)
C9_Witness ==
    /\ last.op = "create" /\ last.target = None
    /\ \E a, b \in prev : a.lft < b.lft /\ b.rgt < a.rgt
    /\ RowOf(store, last.node).lft > 2 * Cardinality(prev)
    /\ prev \subseteq store

----
(* Forests built by creates alone (SpecBuild): keys are handed out in     *)
(* creation order and parent holds the parent argument of each create     *)

RECURSIVE Ascending(_)
Ascending(S) ==
    IF S = {} THEN <<>> ELSE <<Min(S)>> \o Ascending(S \ {Min(S)})

RECURSIVE UnderArg(_, _)
UnderArg(k, r) ==
    \/ k = r
    \/ parent[k] # None /\ UnderArg(parent[k], r)

ScenarioArgs == <<None, 1, 1, 3, 3, 3>>

ScenarioStore ==
    { Row(1, 1, 12), Row(2, 2, 3), Row(3, 4, 11),
      Row(4, 5, 6), Row(5, 7, 8), Row(6, 9, 10) }

(* C10: after creates in which every parent precedes its children,        *)
(* generate_tree from a root yields exactly the children given by the     *)
(* parent arguments, in creation order; root A, children B, C of A, then  *)
(* D, E, F under C are stored as A=(1,12) B=(2,3) C=(4,11) D=(5,6)        *)
(* E=(7,8) F=(9,10)                                                       *)
C10_BuildTree ==
    /\ \A root \in store :
           parent[root.id] = None =>
               LET tree == generate_tree(store, root)
               IN  /\ ~tree.err
                   /\ DOMAIN tree.children = {k \in Ids(store) : UnderArg(k, root.id)}
                   /\ \A x \in DOMAIN tree.children :
                          tree.children[x] = Ascending({k \in Ids(store) : parent[k] = x})
    /\ parent = ScenarioArgs => store = ScenarioStore

C10_Witness ==
    /\ parent = ScenarioArgs
    /\ store = ScenarioStore
    /\ generate_tree(store, RowOf(store, 1)).children = <<<<2, 3>>, <<>>, <<4, 5, 6>>, <<>>, <<>>, <<>>>>

----
(* The shape of the tests: a fixture builds the forest and commits, then  *)
(* one delete runs on the committed forest (SpecRemove)                   *)

FixtureBuild(p) ==
    /\ last.op \in {"commit", "create"}
    /\ Build(p)

FixtureCommit ==
    /\ last.op = "create"
    /\ Commit

NextRemove ==
    \/ \E p \in BuildKeys \cup {None} : FixtureBuild(p)
    \/ FixtureCommit
    \/ \E n \in BuildKeys : Delete(n)

SpecRemove == Init /\ [][NextRemove]_vars

AfterScenarioDelete == {Row(1, 1, 4), Row(2, 2, 3)}

(* C11: delete(N) removes N and every row that was strictly inside N's    *)
(* interval, for a leaf or an inner node, a root or a nested node;        *)
(* deleting C from A=(1,12) B=(2,3) C=(4,11) D=(5,6) E=(7,8) F=(9,10)     *)
(* leaves exactly A=(1,4) and B=(2,3)                                     *)
C11_DeleteSubtree ==
    last.op = "delete" =>
        LET N == RowOf(prev, last.node)
        IN  /\ last.node \notin Ids(store)
            /\ \A d \in StrictDescendants(prev, N) : d.id \notin Ids(store)
            /\ (prev = ScenarioStore /\ last.node = 3) => store = AfterScenarioDelete

C11_Witness ==
    /\ last.op = "delete"
    /\ prev = ScenarioStore
    /\ last.node = 3
    /\ store = AfterScenarioDelete

(* C12: delete(N) removes nothing but N and N's descendants: every row    *)
(* outside N's interval before the call is still there afterwards, with   *)
(* the same nearest strict ancestor and in the same left-to-right order   *)
C12_DeleteFrame ==
    last.op = "delete" =>
        LET N == RowOf(prev, last.node)
            out == prev \ Subtree(prev, N)
        IN  /\ \A x \in out : x.id \in Ids(store)
            /\ \A x \in out :
                   x.id \in Ids(store) =>
                       ParentOf(store, RowOf(store, x.id)) = ParentOf(prev, x)
            /\ \A x, y \in out :
                   (x.id \in Ids(store) /\ y.id \in Ids(store)) =>
                       ((x.lft < y.lft) <=> (RowOf(store, x.id).lft < RowOf(store, y.id).lft))

(* C13: a move that asks for the place the node already has changes no    *)
(* bound: move_before(N, T) with N.rgt + 1 = T.lft, move_after(N, T) with *)
(* T.rgt + 1 = N.lft and move_inside(N, T) with N.rgt + 1 = T.rgt         *)
C13_NoOpMoves ==
    Moved =>
        LET N == RowOf(prev, last.node)
            T == RowOf(prev, last.target)
        IN  (\/ last.op = "move_before" /\ N.rgt + 1 = T.lft
             \/ last.op = "move_after" /\ T.rgt + 1 = N.lft
             \/ last.op = "move_inside" /\ N.rgt + 1 = T.rgt)
                => store = prev

(* a subtree moved inside the parent whose right-most child it already is, *)
(* with rows to its right that the gap closure shifts                     *)
C13_Witness ==
    /\ last.op = "move_inside" /\ ~last.err
    /\ RowOf(prev, last.node).rgt + 1 = RowOf(prev, last.target).rgt
    /\ Width(RowOf(prev, last.node)) > 2
    /\ \E x \in prev : x.lft > RowOf(prev, last.target).rgt
    /\ store = prev

----
(* Operations whose target or parent key has no row (SpecNotFound). The   *)
(* target is an instance whose row is gone: when it is expired, reading   *)
(* target.left raises before anything else happens; when it still holds   *)
(* bounds (tl, tr), the cycle check runs on them, the quarantine and the  *)
(* gap closure are executed, the scalar read of the target's bound gives  *)
(* None, increase_space compares with NULL and matches no row, and the    *)
(* subtraction instance.left - None raises TypeError.                     *)

StaleBounds == 1..(2 * MaxSlots)

MoveMissingTarget(o, n, t) ==
    /\ Idle
    /\ n \in Ids(store)
    /\ t \notin Ids(store)
    /\ LET self == RowOf(store, n)
       IN  \/ store' = store
           \/ /\ \E tl, tr \in StaleBounds :
                     tl < tr /\ ~MovementNotAllowed(self, Row(t, tl, tr))
              /\ store' = shrink_space(move_outside(store, self), self)
    /\ prev' = store
    /\ last' = Op(o, n, t, TRUE)
    /\ UNCHANGED <<parent, tx>>

(* before_insert with a parent that has no row: right_most_sibling is     *)
(* None, increase_space matches no row, and None + 1 raises TypeError     *)
CreateMissingParent(p) ==
    /\ Idle
    /\ Cardinality(store) < MaxNodes
    /\ p \notin Ids(store)
    /\ p # NewKey(store)
    /\ store' = store
    /\ prev' = store
    /\ last' = Op("create", NewKey(store), p, TRUE)
    /\ UNCHANGED <<parent, tx>>

Resolved == last.target = None \/ last.target \in Ids(prev)

CommitResolved ==
    /\ Resolved
    /\ Commit

NextNotFound ==
    \/ \E p \in Keys \cup {None} : Create(p)
    \/ \E n \in Keys : Delete(n)
    \/ \E n, t \in Keys : MoveBefore(n, t)
    \/ \E n, t \in Keys : MoveAfter(n, t)
    \/ \E n, t \in Keys : MoveInside(n, t)
    \/ CommitResolved
    \/ \E o \in Moves : \E n, t \in Keys : MoveMissingTarget(o, n, t)
    \/ \E p \in Keys : CreateMissingParent(p)

SpecNotFound == Init /\ [][NextNotFound]_vars

(* C14: a move whose target has no row (the cycle check not firing) and a *)
(* create whose parent has no row raise an error and leave every row's    *)
(* bounds as they were before the call                                    *)
C14_NotFound ==
    (last.op \in Moves \cup {"create"} /\ ~Resolved) => (last.err /\ store = prev)

----
(* A move run statement by statement on a forest built by creates         *)
(* (SpecPhases): quarantine, source gap closure, destination gap opening, *)
(* re-anchoring, each one UPDATE on the table                             *)

InFlight(p) == tx[p].pc \notin {"none", "done"}

RaceBuild(par) ==
    /\ \A p \in Procs : tx[p].pc = "none"
    /\ Cardinality(store) < MaxRace
    /\ Build(par)

(* the instance and the target are loaded, the cycle check runs and the   *)
(* subtree is quarantined                                                 *)
Quarantine(p, o, n, t) ==
    /\ tx[p].pc = "none"
    /\ n \in Ids(store)
    /\ t \in Ids(store)
    /\ LET self == RowOf(store, n)
           target == RowOf(store, t)
           begun == [NoTx EXCEPT !.op = o, !.self = self, !.target = t,
                                 !.overlap = \E q \in Procs \ {p} : InFlight(q)]
       IN  IF MovementNotAllowed(self, target)
           THEN /\ store' = store
                /\ tx' = [tx EXCEPT ![p] = [begun EXCEPT !.pc = "done"]]
           ELSE /\ store' = move_outside(store, self)
                /\ tx' = [tx EXCEPT ![p] = [begun EXCEPT !.pc = "quarantined"]]
    /\ UNCHANGED <<parent, prev, last>>

CloseGap(p) ==
    /\ tx[p].pc = "quarantined"
    /\ store' = shrink_space(store, tx[p].self)
    /\ tx' = [tx EXCEPT ![p].pc = "shrunk"]
    /\ UNCHANGED <<parent, prev, last>>

(* the scalar read of the target's bound and increase_space *)
OpenGap(p) ==
    /\ tx[p].pc = "shrunk"
    /\ LET width == tx[p].self.rgt - tx[p].self.lft + 1
           target == RowOf(store, tx[p].target)
           position == IF tx[p].op = "move_before" THEN target.lft ELSE target.rgt
       IN  /\ store' = increase_space(store, position, width, tx[p].op # "move_after")
           /\ tx' = [tx EXCEPT ![p].pc = "opened", ![p].pos = position]
    /\ UNCHANGED <<parent, prev, last>>

ReAnchor(p) ==
    /\ tx[p].pc = "opened"
    /\ LET distance == IF tx[p].op = "move_after"
                       THEN tx[p].self.lft - tx[p].pos - 1
                       ELSE tx[p].self.lft - tx[p].pos
       IN  store' = return_inside(store, distance)
    /\ tx' = [tx EXCEPT ![p].pc = "done"]
    /\ UNCHANGED <<parent, prev, last>>

NextPhases ==
    \/ \E par \in Keys \cup {None} : RaceBuild(par)
    \/ \E o \in Moves : \E n, t \in Keys : Quarantine(1, o, n, t)
    \/ CloseGap(1)
    \/ OpenGap(1)
    \/ ReAnchor(1)

SpecPhases == Init /\ [][NextPhases]_vars

Quarantined(s) == {r \in s : r.lft < 0}

Negated(r) == [r EXCEPT !.lft = -r.lft, !.rgt = -r.rgt]

----
(* Two transactions on one table with no isolation between their          *)
(* statements (SpecRace): transaction 1 moves a node, transaction 2       *)
(* creates one; before_insert is a scalar read, increase_space and the    *)
(* INSERT of the new row                                                  *)

ReadPosition(p, par) ==
    /\ tx[p].pc = "none"
    /\ par = None \/ par \in Ids(store)
    /\ tx' = [tx EXCEPT ![p] =
                 [NoTx EXCEPT !.pc = "read", !.op = "create", !.target = par,
                              !.pos = IF par = None THEN right_most(store)
                                      ELSE RowOf(store, par).rgt,
                              !.overlap = \E q \in Procs \ {p} : InFlight(q)]]
    /\ UNCHANGED <<store, parent, prev, last>>

MakeRoom(p) ==
    /\ tx[p].pc = "read"
    /\ tx[p].target # None
    /\ store' = increase_space(store, tx[p].pos, 2, TRUE)
    /\ tx' = [tx EXCEPT ![p].pc = "room"]
    /\ UNCHANGED <<parent, prev, last>>

InsertRow(p) ==
    /\ \/ tx[p].pc = "read" /\ tx[p].target = None
       \/ tx[p].pc = "room"
    /\ store' = store \cup
           { IF tx[p].target = None
             THEN Row(NewKey(store), tx[p].pos + 1, tx[p].pos + 2)
             ELSE Row(NewKey(store), tx[p].pos, tx[p].pos + 1) }
    /\ tx' = [tx EXCEPT ![p].pc = "done"]
    /\ UNCHANGED <<parent, prev, last>>

NextRace ==
    \/ \E par \in Keys \cup {None} : RaceBuild(par)
    \/ \E o \in Moves : \E n, t \in Keys : Quarantine(1, o, n, t)
    \/ CloseGap(1)
    \/ OpenGap(1)
    \/ ReAnchor(1)
    \/ \E par \in Keys \cup {None} : ReadPosition(2, par)
    \/ MakeRoom(2)
    \/ InsertRow(2)

SpecRace == Init /\ [][NextRace]_vars

BothDone == \A p \in Procs : tx[p].pc = "done"

Interleaved == \E p \in Procs : tx[p].overlap

(* C16: when the statements of two mutations interleave, a final state    *)
(* that breaks the nesting law is reachable (C16_Witness); when each      *)
(* mutation runs as a whole, every final state satisfies the nesting law  *)
C16_SerialNesting ==
    (BothDone /\ ~Interleaved) =>
        \A a, b \in store : a # b => Cardinality(Relations(a, b)) = 1

(* both mutations are finished, their statements interleaved, and two     *)
(* rows overlap partially or share a bound                                *)
C16_Witness ==
    /\ BothDone
    /\ Interleaved
    /\ tx[1].self.id # None
    /\ \E a, b \in store : a # b /\ Cardinality(Relations(a, b)) # 1

----
(* Reconstruction and listings on the committed forests of Spec *)

RECURSIVE PreorderSeq(_, _)
PreorderSeq(ch, seq) ==
    IF seq = <<>> THEN <<>>
    ELSE <<Head(seq)>> \o PreorderSeq(ch, ch[Head(seq)]) \o PreorderSeq(ch, Tail(seq))

IdsOf(seq) == [i \in 1..Len(seq) |-> seq[i].id]

(* C17: generate_tree(R) over R's descendants in ascending left order     *)
(* attaches every descendant to the row with the tightest strictly        *)
(* enclosing interval, keeps every children list in ascending left order, *)
(* and its preorder traversal is the left-ordered scan, every descendant  *)
(* once                                                                   *)
C17_RoundTrip ==
    Idle =>
        \A R \in store :
            LET tree == generate_tree(store, R)
                inside == StrictDescendants(store, R)
                ch == tree.children
            IN  /\ ~tree.err
                /\ DOMAIN ch = Ids(inside) \cup {R.id}
                /\ \A d \in inside :
                       \E i \in 1..Len(ch[ParentOf(store, d)]) :
                           ch[ParentOf(store, d)][i] = d.id
                /\ \A x \in DOMAIN ch : \A i, j \in 1..Len(ch[x]) :
                       i < j => RowOf(store, ch[x][i]).lft < RowOf(store, ch[x][j]).lft
                /\ PreorderSeq(ch, ch[R.id]) = IdsOf(SortByLeft(inside))

(* a root with a child that has two children of its own, after a move *)
C17_Witness ==
    /\ Idle
    /\ \E R \in store :
           LET ch == generate_tree(store, R).children
           IN  /\ Len(ch[R.id]) = 1
               /\ Len(ch[ch[R.id][1]]) = 2
               /\ PreorderSeq(ch, ch[R.id]) = <<ch[R.id][1]>> \o ch[ch[R.id][1]]
               /\ ch[R.id][1] > ch[ch[R.id][1]][1]

----
(* Creates and moves only, no delete (SpecNoDelete) *)

NextNoDelete ==
    \/ \E p \in Keys \cup {None} : Create(p)
    \/ \E n, t \in Keys : MoveBefore(n, t)
    \/ \E n, t \in Keys : MoveAfter(n, t)
    \/ \E n, t \in Keys : MoveInside(n, t)
    \/ Commit

SpecNoDelete == Init /\ [][NextNoDelete]_vars

BoundsOf(s) == {r.lft : r \in s} \cup {r.rgt : r \in s}

(* C18: after any sequence of completed creates and moves, with n rows in *)
(* the table, every bound is positive and the left and right values are   *)
(* exactly 1 .. 2n, none used twice; no row is quarantined                *)
C18_DenseBounds ==
    /\ BoundsOf(store) = 1..(2 * Cardinality(store))
    /\ \A a, b \in store : a # b => {a.lft, a.rgt} \cap {b.lft, b.rgt} = {}
    /\ \A a \in store : 0 < a.lft /\ a.lft < a.rgt
    /\ Quarantined(store) = {}

C18_Witness ==
    /\ Moved
    /\ store # prev
    /\ Cardinality(store) >= 4
    /\ Width(RowOf(prev, last.node)) > 2
    /\ BoundsOf(store) = 1..(2 * Cardinality(store))

----
Range(seq) == {seq[i] : i \in 1..Len(seq)}

(* C19: in every state reached by completed operations the descendants    *)
(* scan of A, which filters on the left bound alone, returns exactly the  *)
(* rows B with A.is_ancestor_of(B); B.is_descendant_of(A, inclusive) is   *)
(* A.is_ancestor_of(B, inclusive) for both values of inclusive; a row     *)
(* created with parent P is in P.descendants                              *)
C19_DescendantsScan ==
    /\ Idle =>
           \A A \in store :
               /\ Range(descendants(store, A)) = {B \in store : is_ancestor_of(A, B, FALSE)}
               /\ Len(descendants(store, A)) = Cardinality(Range(descendants(store, A)))
               /\ \A B \in store : \A inclusive \in BOOLEAN :
                      is_descendant_of(B, A, inclusive) = is_ancestor_of(A, B, inclusive)
    /\ (last.op = "create" /\ ~last.err /\ last.target # None) =>
           RowOf(store, last.node) \in Range(descendants(store, RowOf(store, last.target)))

(* a row created under a parent that is itself a child: it is in the scan *)
(* of the parent and of the grandparent                                   *)
C19_Witness ==
    /\ last.op = "create" /\ ~last.err /\ last.target # None
    /\ ParentOf(store, RowOf(store, last.target)) # None
    /\ \A A \in store :
           is_ancestor_of(A, RowOf(store, last.node), FALSE) =>
               RowOf(store, last.node) \in Range(descendants(store, A))

(* C20: the indented listing emits every row once, in ascending left      *)
(* order, and the depth it computes for a row (rows whose closed interval *)
(* contains the row's left bound, minus 1) is the number of the row's     *)
(* strict ancestors                                                       *)
C20_IndentedListing ==
    Idle =>
        LET out == print_tree(store)
        IN  /\ Len(out) = Cardinality(store)
            /\ {out[i].employee : i \in 1..Len(out)} = store
            /\ \A i, j \in 1..Len(out) :
                   i < j => out[i].employee.lft < out[j].employee.lft
            /\ \A i \in 1..Len(out) :
                   out[i].indentation =
                       Cardinality({a \in store : a.lft < out[i].employee.lft
                                                   /\ out[i].employee.rgt < a.rgt})

(* a listing with a row at depth 2 that is not the last line *)
C20_Witness ==
    /\ Idle
    /\ \E i \in 1..Len(print_tree(store)) :
           /\ print_tree(store)[i].indentation = 2
           /\ i < Len(print_tree(store))
           /\ print_tree(store)[i + 1].indentation = 0

====
